---- MODULE Spec2Model ----
(***************************************************************************)
(* Receipt-image field extraction: the OCR text cleanup, the regex field   *)
(* extractors of script.py (extract_data / find_first_match) and           *)
(* script2.py (extract_clean_data), and the batch loops of both scripts.   *)
(*                                                                         *)
(* A text is a sequence of code points (naturals), so that the character   *)
(* classes of the regular expressions are the numeric ranges the source    *)
(* writes.  A regular expression is a sequence of items (literal, greedy   *)
(* repetition of a character class, ordered alternation); matching is      *)
(* Python's backtracking search: leftmost start, alternatives in order,    *)
(* repetitions longest first.                                              *)
(***************************************************************************)
EXTENDS Integers, Sequences, FiniteSets, TLC

VARIABLES
    mode,         \* "batch": a run of __main__; "pure": one text through the
                  \* functions
    variant,      \* "script" (script.py) or "script2" (script2.py)
    pc,           \* position in __main__ / in the per-text pipeline
    listing,      \* the order in which glob() lists the directory
    image_files,  \* the list the batch loop iterates over
    idx,          \* 1-based index of the next image of the loop
    all_data,     \* rows appended so far
    printed,      \* lines printed by the loop: <<"Processed"|"Error", name>>
    outcome,      \* per processed image: what preprocess/OCR did (environment)
    texts,        \* per processed image: the text handed to the extractor
    abort,        \* why the run ended with an uncaught exception ("" if not)
    raw,          \* one text: text returned by pytesseract.image_to_string
    ocr_text,     \* one text: result of extract_text_from_image
    parsed        \* one text: record returned by the extractor

vars == <<mode, variant, pc, listing, image_files, idx, all_data, printed,
          outcome, texts, abort, raw, ocr_text, parsed>>

-----------------------------------------------------------------------------
(* Bounds of the model *)

\* longest raw OCR string enumerated over RawAlphabet
MaxLen == 4
\* most fragments concatenated into one raw OCR string
MaxFrags == 2
\* most files in the input directory
MaxFiles == 3

-----------------------------------------------------------------------------
(* Characters *)

\* code points 32..95 and 97..126 in order; Ord reads a character's code point
\* off them (code point 96 has no literal in a TLA+ string and no use here)
AsciiLow == " !\"#$%&'()*+,-./0123456789:;<=>?@ABCDEFGHIJKLMNOPQRSTUVWXYZ[\\]^_"
AsciiHigh == "abcdefghijklmnopqrstuvwxyz{|}~"

Ord(c) ==
    IF \E n \in 1..Len(AsciiLow) : SubSeq(AsciiLow, n, n) = c
    THEN 31 + (CHOOSE n \in 1..Len(AsciiLow) : SubSeq(AsciiLow, n, n) = c)
    ELSE 96 + (CHOOSE n \in 1..Len(AsciiHigh) : SubSeq(AsciiHigh, n, n) = c)

\* a string literal of the source as a sequence of code points
Codes(str) == [i \in 1..Len(str) |-> Ord(SubSeq(str, i, i))]

\* re.IGNORECASE: letters compare by their lower-case form
Lower(c) == IF c \in 65..90 THEN c + 32 ELSE c

\* the code points the model's texts are drawn from (Latin-1)
CodePoints == 0..255

\* [^\x00-\x7F]
NonAscii == 128..255

\* \s on str patterns, and str.strip(): the characters with str.isspace()
Whitespace == {9, 10, 11, 12, 13, 28, 29, 30, 31, 32, 133, 160}

\* \d (code points below 256)
Digit == 48..57

\* \w (code points below 256): letters, digits, underscore
Word == Digit \cup (65..90) \cup (97..122) \cup {95, 170, 181, 186}
        \cup (192..214) \cup (216..246) \cup (248..255)
        \cup {178, 179, 185, 188, 189, 190}

\* . without re.DOTALL: anything but a newline
Dot == CodePoints \ {10}

SetMin(S) == CHOOSE x \in S : \A y \in S : x <= y
SetMax(S) == CHOOSE x \in S : \A y \in S : x >= y

-----------------------------------------------------------------------------
(* Text cleanup of extract_text_from_image *)

\* number of consecutive characters of class cls from position i on
RunLen(s, cls, i) ==
    LET stop == CHOOSE j \in i..(Len(s) + 1) :
                    /\ j > Len(s) \/ s[j] \notin cls
                    /\ \A k \in i..(j - 1) : s[k] \in cls
    IN  stop - i

\* the concatenation of seqs[lo..hi], halving the range so that the nesting stays
\* logarithmic in its length
RECURSIVE Flatten(_, _, _)
Flatten(seqs, lo, hi) ==
    IF lo > hi THEN <<>>
    ELSE IF lo = hi THEN seqs[lo]
    ELSE LET mid == (lo + hi) \div 2
         IN  Flatten(seqs, lo, mid) \o Flatten(seqs, mid + 1, hi)

\* re.sub(r'[cls]+', ' ', s): every maximal run of cls becomes one space
SubRuns(s, cls) ==
    LET piece(i) == IF s[i] \notin cls THEN <<s[i]>>
                    ELSE IF i > 1 /\ s[i - 1] \in cls THEN <<>> ELSE <<32>>
    IN  Flatten([i \in 1..Len(s) |-> piece(i)], 1, Len(s))

\* str.strip()
Strip(s) ==
    LET keep == {j \in 1..Len(s) : s[j] \notin Whitespace}
    IN  IF keep = {} THEN <<>> ELSE SubSeq(s, SetMin(keep), SetMax(keep))

\* a bug the cleanup could have: the text stripped before, not after, the
\* substitutions
CleanupStripFirst(text) == SubRuns(SubRuns(Strip(text), NonAscii), Whitespace)

\* a bug the cleanup could have: the non-ASCII substitution left out
CleanupKeepNonAscii(text) == Strip(SubRuns(text, Whitespace))

\* the two re.sub calls and the strip applied to the OCR output
Cleanup(text) == Strip(SubRuns(SubRuns(text, NonAscii), Whitespace))

-----------------------------------------------------------------------------
(* Regular expressions, as re compiles the patterns of the source *)

\* a literal string, compared case-insensitively
Lit(str) == [t |-> "lit", s |-> Codes(str)]
\* cls{lo,hi}, greedy; hi = -1 stands for no upper limit (*, +, {n,})
Rep(cls, lo, hi) == [t |-> "rep", cls |-> cls, lo |-> lo, hi |-> hi]
Star(cls) == Rep(cls, 0, -1)
Plus(cls) == Rep(cls, 1, -1)
Opt(cls) == Rep(cls, 0, 1)
\* (?:a|b|...), alternatives tried in the order written
Alt(alts) == [t |-> "alt", alts |-> alts]
\* (?:...)?: the group first, the empty match second
OptGroup(re) == Alt(<<re, <<>>>>)

RECURSIVE Ends(_, _, _), ItemEnds(_, _, _)

\* The positions at which a match of re begun at position i of s can end, in
\* the order in which the backtracking matcher tries them: the rest of the
\* expression is matched after each way the first item matched.
Ends(re, s, i) ==
    IF Len(re) = 0 THEN <<i>>
    ELSE LET es == ItemEnds(Head(re), s, i)
         IN  Flatten([k \in 1..Len(es) |-> Ends(Tail(re), s, es[k])], 1, Len(es))

ItemEnds(item, s, i) ==
    CASE item.t = "lit" ->
           LET n == Len(item.s)
           IN  IF /\ i + n - 1 <= Len(s)
                  /\ \A k \in 1..n : Lower(s[i + k - 1]) = Lower(item.s[k])
               THEN <<i + n>> ELSE <<>>
      [] item.t = "rep" ->
           LET run == RunLen(s, item.cls, i)
               most == IF item.hi >= 0 /\ run > item.hi THEN item.hi ELSE run
           IN  IF most < item.lo THEN <<>>
               ELSE [j \in 1..(most - item.lo + 1) |-> i + most - (j - 1)]
      [] item.t = "alt" ->
           Flatten([k \in 1..Len(item.alts) |-> Ends(item.alts[k], s, i)],
                   1, Len(item.alts))

\* the first non-empty sequence of a sequence of sequences, <<>> if there is none
FirstNonEmpty(seqs) ==
    IF \E k \in 1..Len(seqs) : Len(seqs[k]) > 0
    THEN seqs[CHOOSE k \in 1..Len(seqs) :
                  Len(seqs[k]) > 0 /\ \A j \in 1..(k - 1) : Len(seqs[j]) = 0]
    ELSE <<>>

\* the ways the group matches from position e on, each as <<e, end>>
GroupAt(grp, s, e) ==
    LET gs == Ends(grp, s, e) IN [k \in 1..Len(gs) |-> <<e, gs[k]>>]

\* A pattern is <<pre, grp>>: the expression before the capture group, and the
\* group, which is last in every pattern of the source.  A pattern without a
\* group is <<empty, whole>>: re.findall then returns the whole match.
\* MatchAt: the first way the pattern matches at position i, as
\* <<<<start of the group, end of the group>>>>, or <<>>.
MatchesAfter(es, grp, s) ==
    LET first == FirstNonEmpty([k \in 1..Len(es) |-> GroupAt(grp, s, es[k])])
    IN  IF Len(first) > 0 THEN <<first[1]>> ELSE <<>>

MatchAt(pat, s, i) == MatchesAfter(Ends(pat[1], s, i), pat[2], s)

\* re.search(pat, s, re.IGNORECASE), and the first element of re.findall:
\* the leftmost match as <<<<start of the group, end of the group>>>>, <<>>
\* when there is none
Search(pat, s) == FirstNonEmpty([i \in 1..(Len(s) + 1) |-> MatchAt(pat, s, i)])

\* whether the pattern matches, from the result of Search
Found(m) == Len(m) > 0

\* match.group(1), or matches[0] of re.findall, from the result of Search
Group(m, s) == SubSeq(s, m[1][1], m[1][2] - 1)

-----------------------------------------------------------------------------
(* Field values *)

\* a field of a record: Python's None, or a str
None == [present |-> FALSE, value |-> <<>>]
Str(v) == [present |-> TRUE, value |-> v]

\* Python's truth value of a field: None and '' are false
Truthy(f) == f.present /\ Len(f.value) > 0

\* the characters of a character class written as a string
Chars(str) == {Ord(SubSeq(str, i, i)) : i \in 1..Len(str)}

-----------------------------------------------------------------------------
(* script.py: find_first_match and the patterns of extract_data *)

\* raw_value.split('\n')[0]
FirstLine(s) ==
    LET nl == {j \in 1..Len(s) : s[j] = 10}
    IN  IF nl = {} THEN s ELSE SubSeq(s, 1, SetMin(nl) - 1)

\* re.sub(r'[.,:;]+$', '', value), on a value that holds no newline
TrailingPunct == Chars(".,:;")

RStripPunct(v) ==
    LET keep == {j \in 1..Len(v) : v[j] \notin TrailingPunct}
    IN  IF keep = {} THEN <<>> ELSE SubSeq(v, 1, SetMax(keep))

\* the value find_first_match returns for the first match of a pattern
CleanValue(captured) == RStripPunct(Strip(FirstLine(Strip(captured))))

RECURSIVE FindFrom(_, _, _)
FindFrom(text, patterns, k) ==
    IF k > Len(patterns) THEN None
    ELSE LET m == Search(patterns[k], text)
         IN  IF Found(m) THEN Str(CleanValue(Group(m, text)))
             ELSE FindFrom(text, patterns, k + 1)

\* a bug find_first_match could have: the empty string instead of None when
\* no pattern matches
find_first_match_empty(text, patterns) ==
    LET f == FindFrom(text, patterns, 1) IN IF f.present THEN f ELSE Str(<<>>)

find_first_match(text, patterns) == FindFrom(text, patterns, 1)

\* \s*[:\-]?\s*
Separator == <<Star(Whitespace), Opt(Chars(":-")), Star(Whitespace)>>

sender_patterns == <<
    << <<Alt(<< <<Lit("From")>>, <<Lit("Sender")>>, <<Lit("Funding Source")>>,
                <<Lit("Source Acc"), Opt(Chars(".")), Lit(" Title")>>,
                <<Lit("Paid by")>>, <<Lit("Payer")>> >>)>> \o Separator,
       <<Star(Dot)>> >> >>

receiver_patterns == <<
    << <<Alt(<< <<Lit("To")>>, <<Lit("Receiver")>>, <<Lit("Sent to")>>,
                <<Lit("Beneficiary")>>, <<Lit("Payee")>>,
                <<Lit("Destination Acc"), Opt(Chars(".")), Lit(" Title")>> >>)>>
         \o Separator,
       <<Star(Dot)>> >> >>

\* (?:Rs\.?|PKR)
Currency == Alt(<< <<Lit("Rs"), Opt(Chars("."))>>, <<Lit("PKR")>> >>)

\* ([0-9,]+\.?[0-9]*)
Number == <<Plus(Digit \cup Chars(",")), Opt(Chars(".")), Star(Digit)>>

amount_patterns == <<
    << <<Currency, Star(Whitespace), Opt(Chars(".:")), Star(Whitespace)>>,
       Number >>,
    << <<Alt(<< <<Lit("Amount Sent")>>, <<Lit("Total Amount")>>,
                <<Lit("Amount")>> >>)>>
         \o Separator \o <<OptGroup(<<Currency>>), Star(Whitespace)>>,
       Number >> >>

bank_patterns == <<
    << <<>>,
       <<Alt(<< <<Lit("Silk Bank")>>,
                <<Lit("Easypaisa Bank"), Opt(Chars("-")), Star(Digit)>>,
                <<Lit("NayaPay")>>,
                <<Star(Dot), Rep(Chars("*"), 4, -1), Rep(Digit, 3, 4)>>,
                <<Rep(Digit, 9, 14)>> >>)>> >>,
    << <<Alt(<< <<Lit("Bank"), Star(Whitespace), Lit("Account")>>,
                <<Lit("Acct"), Star(Whitespace), Lit("No"), Opt(Chars("."))>>,
                <<Lit("Account")>> >>)>> \o Separator,
       <<Plus(Word \cup Chars("-*"))>> >> >>

\* a bug the Transaction_ID rule could have: the reference labels left to the
\* Reference_Number rule alone
transaction_id_patterns_no_ref == <<
    << <<Alt(<< <<Lit("Transaction ID")>>,
                <<Lit("Trans"), Opt(Chars(".")), Lit(" ID")>>,
                <<Lit("Tx ID")>> >>)>> \o Separator,
       <<Plus(Word \cup Digit \cup Chars("-"))>> >> >>

transaction_id_patterns == <<
    << <<Alt(<< <<Lit("Transaction ID")>>,
                <<Lit("Trans"), Opt(Chars(".")), Lit(" ID")>>,
                <<Lit("Tx ID")>>, <<Lit("Ref#")>>, <<Lit("Reference")>>,
                <<Lit("Ref")>> >>)>> \o Separator,
       <<Plus(Word \cup Digit \cup Chars("-"))>> >> >>

reference_patterns == <<
    << <<Alt(<< <<Lit("Ref")>>, <<Lit("Ref#")>>, <<Lit("Reference")>> >>)>>
         \o Separator,
       <<Plus(Word \cup Digit \cup Chars("-"))>> >> >>

status_patterns == <<
    << <<>>,
       <<Alt(<< <<Lit("Transaction Successful")>>,
                <<Lit("Transaction successful")>>,
                <<Lit("Money has been sent")>>,
                <<Lit("Successfully Sent")>> >>)>> >> >>

override_sender_pattern ==
    << <<Lit("by")>> \o Separator, <<Star(Dot)>> >>

extract_data(text) ==
    LET sender == find_first_match(text, sender_patterns)
    IN  [ Sender |-> IF ~Truthy(sender)
                     THEN find_first_match(text, <<override_sender_pattern>>)
                     ELSE sender,
          Receiver |-> find_first_match(text, receiver_patterns),
          Amount |-> find_first_match(text, amount_patterns),
          Bank_Details |-> find_first_match(text, bank_patterns),
          Transaction_ID |-> find_first_match(text, transaction_id_patterns),
          Reference_Number |-> find_first_match(text, reference_patterns),
          Transaction_Status |-> find_first_match(text, status_patterns) ]

-----------------------------------------------------------------------------
(* script2.py: extract_clean_data *)

\* match.group(1).strip() if the pattern matches, else the next rule's value
FirstGroup(pat, text, otherwise) ==
    LET m == Search(pat, text)
    IN  IF Found(m) THEN Str(Strip(Group(m, text))) ELSE otherwise

\* ([\w &]+)
NameGroup == <<Plus(Word \cup Chars(" &"))>>

source_title_pattern ==
    << <<Lit("Source Acc"), Opt(Chars(".")), Star(Whitespace), Lit("Title"),
         Star(Whitespace)>>, NameGroup >>

sent_by_pattern == << <<Lit("Sent by"), Star(Whitespace)>>, NameGroup >>

destination_title_pattern ==
    << <<Lit("Destination Acc"), Opt(Chars(".")), Star(Whitespace),
         Lit("Title"), Star(Whitespace)>>, NameGroup >>

to_pattern == << <<Lit("To"), Star(Whitespace)>>, NameGroup >>

total_amount_pattern ==
    << <<Alt(<< <<Lit("Total Amount")>>, <<Lit("Amount")>> >>),
         Star(Whitespace),
         OptGroup(<<Lit("Rs"), Opt(Chars(".")), Star(Whitespace)>>)>>,
       <<Alt(<< <<Plus(Digit \cup Chars(",")), Lit("."), Rep(Digit, 2, 2)>>,
                <<Plus(Digit \cup Chars(","))>> >>)>> >>

source_bank_pattern == << <<Lit("Source Bank"), Star(Whitespace)>>, <<Plus(Word)>> >>

destination_bank_pattern ==
    << <<Lit("Destination Bank"), Star(Whitespace)>>, <<Plus(Word)>> >>

\* str.replace(',', '')
RemoveCommas(s) == SelectSeq(s, LAMBDA c : c # 44)

extract_clean_data(ocr) ==
    LET text == SubRuns(ocr, Whitespace)
    IN  [ Sender |-> FirstGroup(source_title_pattern, text,
                                FirstGroup(sent_by_pattern, text, None)),
          Receiver |-> FirstGroup(destination_title_pattern, text,
                                  FirstGroup(to_pattern, text, None)),
          Total_Amount |->
              LET m == Search(total_amount_pattern, text)
              IN  IF Found(m) THEN Str(Strip(RemoveCommas(Group(m, text))))
                  ELSE None,
          Sender_Bank |-> FirstGroup(source_bank_pattern, text, None),
          Receiver_Bank |-> FirstGroup(destination_bank_pattern, text, None) ]

-----------------------------------------------------------------------------
(* __main__ of both scripts: the file list *)

Variants == {"script", "script2"}

\* the file names glob("*.*") can list
FileNames == {"2.jpg", "10.jpg", "2.png", "a.jpg"}

\* os.path.splitext(os.path.basename(x))[0], for a name that holds a dot
Stem(name) ==
    LET dots == {j \in 1..Len(name) : SubSeq(name, j, j) = "."}
    IN  SubSeq(name, 1, SetMax(dots) - 1)

\* whether int(stem) returns: a non-empty run of decimal digits (the other
\* literals int() accepts, signs and underscores, are not among FileNames)
IsIntLiteral(stem) ==
    /\ Len(stem) > 0
    /\ \A j \in 1..Len(stem) : Ord(SubSeq(stem, j, j)) \in Digit

RECURSIVE IntOf(_)
IntOf(stem) ==
    IF Len(stem) = 0 THEN 0
    ELSE 10 * IntOf(SubSeq(stem, 1, Len(stem) - 1))
         + (Ord(SubSeq(stem, Len(stem), Len(stem))) - 48)

\* the sort key of script.py
SortKey(name) == IntOf(Stem(name))

\* a bug the file list of script.py could have: the listing left unsorted
SortedByKeyUnsorted(files) == files

\* sorted(files, key=...): ascending by key, equal keys in their listed order
SortedByKey(files) ==
    LET n == Len(files)
        pos(i) == 1 + Cardinality({j \in 1..n :
                        \/ SortKey(files[j]) < SortKey(files[i])
                        \/ SortKey(files[j]) = SortKey(files[i]) /\ j < i})
    IN  [p \in 1..n |-> files[CHOOSE i \in 1..n : pos(i) = p]]

\* whether building the file list raises (ValueError from int() in the key)
GlobRaises(v, files) ==
    v = "script" /\ \E j \in 1..Len(files) : ~IsIntLiteral(Stem(files[j]))

\* image_files, when building it does not raise
ImageFiles(v, files) == IF v = "script" THEN SortedByKey(files) ELSE files

\* the orders in which a directory holding the files of a listing can be listed
Listings(files) ==
    {p \in [1..Len(files) -> {files[j] : j \in 1..Len(files)}] :
        \A a, b \in 1..Len(files) : a # b => p[a] # p[b]}

AllListings ==
    UNION {Listings(q) : q \in UNION {[1..n -> FileNames] : n \in 0..MaxFiles}}

-----------------------------------------------------------------------------
(* __main__ of both scripts: the batch loop *)

\* what cv2 and pytesseract do with one image: the image cannot be decoded
\* (preprocess_image raises ValueError), pytesseract raises, or
\* image_to_string returns a text
BatchRaw == {<<>>, Codes("hello"), Codes("Ref 1") \o <<10>>}

Outcomes ==
    {[kind |-> "unreadable", raw |-> <<>>], [kind |-> "ocr_error", raw |-> <<>>]}
    \cup {[kind |-> "text", raw |-> r] : r \in BatchRaw}

\* extract_text_from_image, given what image_to_string returned
extract_text_from_image(ocr) == Cleanup(ocr)

Extract(v, text) ==
    IF v = "script" THEN extract_data(text) ELSE extract_clean_data(text)

\* parsed["Image"] = os.path.basename(img_file)
Row(rec, name) == [Image |-> name] @@ rec

NoBatch ==
    /\ listing = <<>> /\ image_files = <<>> /\ idx = 0 /\ all_data = <<>>
    /\ printed = <<>> /\ outcome = <<>> /\ texts = <<>> /\ abort = ""

NoPure == raw = <<>> /\ ocr_text = <<>> /\ parsed = <<>>

Init ==
    /\ mode = "batch"
    /\ variant \in Variants
    /\ pc = "glob"
    /\ listing \in AllListings
    /\ image_files = <<>> /\ idx = 0 /\ all_data = <<>> /\ printed = <<>>
    /\ outcome = <<>> /\ texts = <<>> /\ abort = ""
    /\ NoPure

\* image_files = sorted(glob(...), key=...) in script.py, glob(...) in
\* script2.py; all_data = []
Glob ==
    /\ mode = "batch" /\ pc = "glob"
    /\ IF GlobRaises(variant, listing)
       THEN /\ pc' = "aborted"
            /\ abort' = "ValueError"
            /\ UNCHANGED <<image_files, idx>>
       ELSE /\ pc' = "loop"
            /\ image_files' = ImageFiles(variant, listing)
            /\ idx' = 1
            /\ abort' = abort
    /\ UNCHANGED <<mode, variant, listing, all_data, printed, outcome, texts,
                   raw, ocr_text, parsed>>

\* a bug the loop could have: no try/except around the body, so that the first
\* failing image ends the loop
LoopBodyUncaught ==
    /\ mode = "batch" /\ pc = "loop" /\ idx <= Len(image_files)
    /\ \E o \in Outcomes :
         /\ outcome' = Append(outcome, o)
         /\ IF o.kind = "text"
            THEN /\ texts' = Append(texts, extract_text_from_image(o.raw))
                 /\ all_data' = Append(all_data,
                        Row(Extract(variant, extract_text_from_image(o.raw)),
                            image_files[idx]))
                 /\ printed' = Append(printed, <<"Processed", image_files[idx]>>)
                 /\ idx' = idx + 1
            ELSE /\ texts' = Append(texts, <<>>)
                 /\ idx' = Len(image_files) + 1
                 /\ UNCHANGED <<all_data, printed>>
    /\ UNCHANGED <<mode, variant, pc, listing, image_files, abort, raw,
                   ocr_text, parsed>>

\* one iteration of "for img_file in image_files": try preprocess, OCR,
\* extract, append, print; except Exception: print the error
LoopBody ==
    /\ mode = "batch" /\ pc = "loop" /\ idx <= Len(image_files)
    /\ \E o \in Outcomes :
         /\ outcome' = Append(outcome, o)
         /\ IF o.kind = "text"
            THEN /\ texts' = Append(texts, extract_text_from_image(o.raw))
                 /\ all_data' = Append(all_data,
                        Row(Extract(variant, extract_text_from_image(o.raw)),
                            image_files[idx]))
                 /\ printed' = Append(printed, <<"Processed", image_files[idx]>>)
            ELSE /\ texts' = Append(texts, <<>>)
                 /\ printed' = Append(printed, <<"Error", image_files[idx]>>)
                 /\ all_data' = all_data
    /\ idx' = idx + 1
    /\ UNCHANGED <<mode, variant, pc, listing, image_files, abort, raw,
                   ocr_text, parsed>>

\* pd.DataFrame(all_data, columns=...).to_excel(output_file): the table is
\* written, or to_excel raises because the file cannot be written
Export ==
    /\ mode = "batch" /\ pc = "loop" /\ idx > Len(image_files)
    /\ \E writable \in BOOLEAN :
         IF writable
         THEN pc' = "done" /\ abort' = abort
         ELSE pc' = "aborted" /\ abort' = "to_excel"
    /\ UNCHANGED <<mode, variant, listing, image_files, idx, all_data, printed,
                   outcome, texts, raw, ocr_text, parsed>>

Next == Glob \/ LoopBody \/ Export

Spec == Init /\ [][Next]_vars

-----------------------------------------------------------------------------
(* One OCR text through extract_text_from_image and the extractors *)

\* the characters the enumerated OCR strings are made of: a letter, a space,
\* a newline, a control character (BEL), a non-ASCII letter, a non-ASCII
\* whitespace character (NBSP)
RawAlphabet == {97, 32, 10, 7, 233, 160}

RawStrings == UNION {[1..n -> RawAlphabet] : n \in 0..MaxLen}

\* the pieces of receipt text the longer OCR strings are made of
Fragments == <<
    Codes("From: "), Codes("Alice Khan") \o <<10>>, Codes("To: Bob ."),
    Codes("by "), Codes("Sent to"), Codes("Ref# 123 "), Codes("Reference "),
    Codes("Tx ID: T-9 "), Codes("Rs. 1,250.00 "), Codes("Sent by "),
    Codes("Source Acc. Title Ali & Co "), Codes("Total Amount Rs 5,000.50 "),
    Codes("****4508 "), Codes("Transaction Successful") >>

RECURSIVE Concat(_)
Concat(seqs) == IF Len(seqs) = 0 THEN <<>> ELSE Head(seqs) \o Concat(Tail(seqs))

FragmentTexts ==
    {Concat([j \in 1..Len(c) |-> Fragments[c[j]]]) :
        c \in UNION {[1..n -> 1..Len(Fragments)] : n \in 0..MaxFrags}}

\* the example of the specification's section 8, and its fallback example
Example ==
    Codes("From: Alice Khan To: Bob Shah Amount: Rs. 1,250.00 ")
    \o Codes("Transaction ID: TXN99123 Transaction Successful")

ExamplePaidBy == Codes("Paid by John Doe")

RawInputs == RawStrings \cup FragmentTexts \cup {Example, ExamplePaidBy}

InitPure ==
    /\ mode = "pure"
    /\ variant = "none"
    /\ pc = "ocr"
    /\ raw \in RawInputs
    /\ ocr_text = <<>> /\ parsed = <<>>
    /\ NoBatch

\* extract_text_from_image, after image_to_string returned raw
ExtractTextFromImage ==
    /\ mode = "pure" /\ pc = "ocr"
    /\ ocr_text' = extract_text_from_image(raw)
    /\ pc' = "text"
    /\ UNCHANGED <<mode, variant, listing, image_files, idx, all_data, printed,
                   outcome, texts, abort, raw, parsed>>

\* parsed = extract_data(ocr_text), script.py
ExtractData ==
    /\ mode = "pure" /\ pc = "text"
    /\ parsed' = extract_data(ocr_text)
    /\ variant' = "script"
    /\ pc' = "parsed"
    /\ UNCHANGED <<mode, listing, image_files, idx, all_data, printed, outcome,
                   texts, abort, raw, ocr_text>>

\* parsed = extract_clean_data(ocr_text), script2.py
ExtractCleanData ==
    /\ mode = "pure" /\ pc = "text"
    /\ parsed' = extract_clean_data(ocr_text)
    /\ variant' = "script2"
    /\ pc' = "parsed"
    /\ UNCHANGED <<mode, listing, image_files, idx, all_data, printed, outcome,
                   texts, abort, raw, ocr_text>>

NextPure == ExtractTextFromImage \/ ExtractData \/ ExtractCleanData

SpecPure == InitPure /\ [][NextPure]_vars

-----------------------------------------------------------------------------
(* Properties *)

\* the keys the extractor of a variant declares
Fields(v) ==
    IF v = "script"
    THEN {"Sender", "Receiver", "Amount", "Bank_Details", "Transaction_ID",
          "Reference_Number", "Transaction_Status"}
    ELSE {"Sender", "Receiver", "Total_Amount", "Sender_Bank", "Receiver_Bank"}

\* whether image k of the loop got through preprocessing and OCR
Succeeded(k) == outcome[k].kind = "text"

SucceededIdx == SelectSeq([k \in 1..Len(outcome) |-> k], LAMBDA k : Succeeded(k))
FailedIdx == SelectSeq([k \in 1..Len(outcome) |-> k], LAMBDA k : ~Succeeded(k))

\* the row of image k, when it succeeded
RowOf(k) == Cardinality({j \in 1..k : Succeeded(j)})

\* the loop has been entered and no key error ended the run before it
InOrPastLoop == mode = "batch" /\ pc \in {"loop", "done", "aborted"} /\ abort # "ValueError"

\* C1: whatever images fail in preprocessing or OCR, the loop goes on to every
\* remaining image; the table holds exactly one row per image that did not
\* fail, in processing order, none for a failing image, and each failure is
\* printed on its own.
C1_FailuresSkippedOthersKept ==
    InOrPastLoop =>
        /\ Len(outcome) = idx - 1
        /\ pc \in {"done", "aborted"} => Len(outcome) = Len(image_files)
        /\ [j \in 1..Len(all_data) |-> all_data[j].Image]
             = [j \in 1..Len(SucceededIdx) |-> image_files[SucceededIdx[j]]]
        /\ SelectSeq(printed, LAMBDA l : l[1] = "Error")
             = [j \in 1..Len(FailedIdx) |-> <<"Error", image_files[FailedIdx[j]]>>]

C1_Witness ==
    /\ mode = "batch" /\ pc = "done" /\ Len(image_files) = 3
    /\ Succeeded(1) /\ ~Succeeded(2) /\ Succeeded(3)
    /\ Len(all_data) = 2
    /\ all_data[1].Image = image_files[1] /\ all_data[2].Image = image_files[3]

\* a field value as the specification wants it: None, or a non-empty string
\* without leading or trailing whitespace and without trailing . , : ;
WellFormed(f) ==
    \/ f = None
    \/ /\ f.present
       /\ Len(f.value) > 0
       /\ f.value[1] \notin Whitespace
       /\ f.value[Len(f.value)] \notin Whitespace \cup TrailingPunct

\* C2: the record of either extractor holds every declared key, each value
\* None or a non-empty string with no leading or trailing whitespace and no
\* trailing punctuation of the trim set.
C2_FieldsPresentAndClean ==
    (mode = "pure" /\ pc = "parsed") =>
        /\ DOMAIN parsed = Fields(variant)
        /\ \A f \in DOMAIN parsed : WellFormed(parsed[f])

\* C3: on the example text, each labelled field's value stops before the next
\* label: Sender "Alice Khan", Receiver "Bob Shah", Amount "1,250.00"
\* ("1250.00" where commas are stripped), Transaction_ID "TXN99123",
\* Transaction_Status "Transaction Successful".
C3_ExampleFields ==
    (mode = "pure" /\ pc = "parsed" /\ raw = Example) =>
        /\ parsed.Sender = Str(Codes("Alice Khan"))
        /\ parsed.Receiver = Str(Codes("Bob Shah"))
        /\ variant = "script" =>
             /\ parsed.Amount = Str(Codes("1,250.00"))
             /\ parsed.Transaction_ID = Str(Codes("TXN99123"))
             /\ parsed.Transaction_Status = Str(Codes("Transaction Successful"))
        /\ variant = "script2" => parsed.Total_Amount = Str(Codes("1250.00"))

\* C4: in extract_data, when both the primary Sender rule and the "by"
\* override rule match the text, the Sender returned is the primary rule's.
C4_PrimarySenderWins ==
    ( /\ mode = "pure" /\ pc = "parsed" /\ variant = "script"
      /\ Found(Search(sender_patterns[1], ocr_text))
      /\ Found(Search(override_sender_pattern, ocr_text)) )
    => parsed.Sender = find_first_match(ocr_text, sender_patterns)

\* C5: the cleanup is idempotent: applied to its own output it returns that
\* output unchanged.
C5_CleanupIdempotent ==
    (mode = "pure" /\ pc \in {"text", "parsed"}) => Cleanup(ocr_text) = ocr_text

C5_Witness ==
    /\ mode = "pure" /\ pc = "text"
    /\ Len(ocr_text) > 1 /\ ocr_text # raw
    /\ \E j \in 1..Len(raw) : raw[j] \in NonAscii
    /\ \E j \in 1..Len(raw) : raw[j] \in Whitespace

\* no whitespace run longer than one character, none at either end
SingleSpaced(s) ==
    /\ \A j \in 1..(Len(s) - 1) : ~(s[j] \in Whitespace /\ s[j + 1] \in Whitespace)
    /\ Len(s) > 0 => s[1] \notin Whitespace /\ s[Len(s)] \notin Whitespace

\* C6 as stated: the cleaned text holds only printable 7-bit characters (no
\* non-ASCII and no control character), no whitespace run longer than one
\* character and no leading or trailing whitespace.
C6_PrintableOnly ==
    (mode = "pure" /\ pc \in {"text", "parsed"}) =>
        /\ \A j \in 1..Len(ocr_text) : ocr_text[j] \in 32..126
        /\ SingleSpaced(ocr_text)

\* C6 as amended: the cleaned text holds no non-ASCII character, no whitespace
\* run longer than one character and no leading or trailing whitespace;
\* control characters that are not whitespace are kept.
C6_AsciiSingleSpaced ==
    (mode = "pure" /\ pc \in {"text", "parsed"}) =>
        /\ \A j \in 1..Len(ocr_text) : ocr_text[j] \notin NonAscii
        /\ SingleSpaced(ocr_text)

C6_Witness ==
    /\ mode = "pure" /\ pc = "text"
    /\ \E j \in 1..Len(raw) : raw[j] \in NonAscii
    /\ \E j \in 1..Len(ocr_text) : ocr_text[j] = 7
    /\ \E j \in 1..Len(ocr_text) : ocr_text[j] = 32

\* whether no rule of the variant's extractor matches the text
NoRuleMatches(v, text) ==
    IF v = "script"
    THEN \A ps \in {sender_patterns, receiver_patterns, amount_patterns,
                    bank_patterns, transaction_id_patterns, reference_patterns,
                    status_patterns, <<override_sender_pattern>>} :
             \A k \in 1..Len(ps) : ~Found(Search(ps[k], text))
    ELSE \A pt \in {source_title_pattern, sent_by_pattern,
                    destination_title_pattern, to_pattern, total_amount_pattern,
                    source_bank_pattern, destination_bank_pattern} :
             ~Found(Search(pt, SubRuns(text, Whitespace)))

AllAbsent(row) == \A f \in DOMAIN row \ {"Image"} : row[f] = None

\* C7: a text no rule matches, the empty OCR text included, gives a record
\* with every field None, and the loop counts the image as processed: its
\* all-absent row is appended and "Processed" is printed, not an error.
C7_NoMatchGivesAllAbsentRow ==
    InOrPastLoop =>
        \A k \in 1..Len(outcome) :
            (Succeeded(k) /\ NoRuleMatches(variant, texts[k])) =>
                /\ RowOf(k) <= Len(all_data)
                /\ all_data[RowOf(k)].Image = image_files[k]
                /\ DOMAIN all_data[RowOf(k)] = Fields(variant) \cup {"Image"}
                /\ AllAbsent(all_data[RowOf(k)])
                /\ printed[k] = <<"Processed", image_files[k]>>

C7_Witness ==
    /\ mode = "batch" /\ pc = "done" /\ variant = "script"
    /\ \E k \in 1..Len(outcome) :
         /\ Succeeded(k) /\ outcome[k].raw = <<>> /\ texts[k] = <<>>
         /\ AllAbsent(all_data[RowOf(k)])
    /\ \E k \in 1..Len(outcome) :
         /\ Succeeded(k) /\ Len(texts[k]) > 0 /\ NoRuleMatches(variant, texts[k])
         /\ AllAbsent(all_data[RowOf(k)])

\* C8: a run ends with an uncaught exception only when the input directory
\* cannot be read or the output file cannot be written.
C8_AbortOnlyForDirectoryOrOutput ==
    (mode = "batch" /\ pc = "aborted") => abort \in {"listdir", "to_excel"}

\* two files of a listing never share a sort key
DistinctKeys(files) ==
    \A a, b \in 1..Len(files) : a # b => SortKey(files[a]) # SortKey(files[b])

\* C9 as stated: in both variants the processing order is a function of the
\* set of file names: any other listing order of the same directory gives the
\* same image_files.
C9_OrderIndependentOfListing ==
    (mode = "batch" /\ pc \in {"loop", "done"}) =>
        \A other \in Listings(listing) : ImageFiles(variant, other) = image_files

\* C9 as amended: in script.py, when the integer values of the file stems are
\* pairwise distinct, the processing order is ascending by that value and so
\* the same for every listing order of the directory (a run that reaches the
\* loop would reach it under every listing order); script2.py processes the
\* files in the order listed.
C9_OrderBySortKey ==
    (mode = "batch" /\ pc \in {"loop", "done"}) =>
        /\ \A other \in Listings(listing) : ~GlobRaises(variant, other)
        /\ (variant = "script" /\ DistinctKeys(listing)) =>
             /\ \A other \in Listings(listing) :
                    ImageFiles(variant, other) = image_files
             /\ \A a, b \in 1..Len(image_files) :
                    a < b => SortKey(image_files[a]) < SortKey(image_files[b])
        /\ variant = "script2" => image_files = listing

C9_Witness ==
    /\ mode = "batch" /\ pc = "done" /\ variant = "script"
    /\ DistinctKeys(listing)
    /\ listing = <<"10.jpg", "2.jpg">> /\ image_files = <<"2.jpg", "10.jpg">>
    /\ Len(all_data) = 2 /\ all_data[1].Image = "2.jpg"

\* C10: in a record of extract_data, Reference_Number is not None only if
\* Transaction_ID is not None.
C10_ReferenceImpliesTransactionId ==
    (mode = "pure" /\ pc = "parsed" /\ variant = "script") =>
        (parsed.Reference_Number.present => parsed.Transaction_ID.present)

C10_Witness ==
    /\ mode = "pure" /\ pc = "parsed" /\ variant = "script"
    /\ parsed.Reference_Number.present /\ parsed.Transaction_ID.present
    /\ parsed.Reference_Number # parsed.Transaction_ID

=============================================================================
